---- MODULE Spec2Model ----
(***************************************************************************)
(* The chat client's session engine: the useChat hook of                   *)
(* frontend/src/services/api.js (send-cycle, stream events, conversation   *)
(* loading, sticky error ledger in localStorage) together with the toast   *)
(* provider whose context value the hook depends on.                       *)
(*                                                                         *)
(* Strings that the code inspects or concatenates (message contents) are   *)
(* sequences of one-character strings; identifiers and titles are atoms.  *)
(***************************************************************************)
EXTENDS Integers, Sequences, FiniteSets, TLC

\* ------------------------------------------------------------------ bounds
\* Spec: how many sends, stream events (over all cycles) and toasts a
\* behaviour may contain.
MaxSends == 1
MaxEvents == 3
MaxToasts == 1
\* SpecTwo: two sends, with one delta content and one error message
TwoSends == 2
TwoEvents == 3
TwoToasts == 1
\* SpecNav: one send, sidebar navigation and a page reload
NavSends == 1
NavEvents == 2
NavNavs == 2
NavReloads == 1
NavToasts == 1
\* SpecClassify: one send whose stream delivers up to two events
ClassifySends == 1
ClassifyEvents == 2
ClassifyToasts == 1
\* SpecList: the sidebar list under title events and list loads
ListSends == 2
ListEvents == 3
ListToasts == 1
\* SpecLive: one send under fair scheduling
LiveSends == 1
LiveEvents == 2
LiveToasts == 1
\* SpecDecoder: one send whose response body holds up to MaxRecords lines
DecoderSends == 1
DecoderEvents == 2
MaxRecords == 2
\* SpecFault: one send while writes to localStorage may throw
FaultSends == 1
FaultEvents == 2
FaultToasts == 1
\* SpecDelete: deletions around one send with one event and one navigation
DeleteSends == 1
DeleteEvents == 1
DeleteNavs == 1
DeleteToasts == 2
\* SpecToast: notifications fired by a component, their timers and clicks
ToastToasts == 3
\* SpecSticky: stored errors of two conversations under one send, new chats,
\* loads and deletions
StickySends == 1
StickyEvents == 3
StickyNavs == 2
StickyToasts == 1
\* requests in flight at once
MaxLoads == 2
MaxListPending == 1
MaxDeletes == 2

\* ------------------------------------------------------------------ data
Null == "null"
Ids == {"c1", "c2"}
Titles == {"t1", "t2"}

Texts == { <<"h", "i">> }
DeltaContents == { <<>>, <<"a">>, <<"b">> }
ErrorMessages ==
  { <<>>,
    <<"n", "o">>,
    <<"L", "i", "m", "i", "t">> }

\* Error texts around the vocabulary: each term, in other cases, inside a
\* longer text, and near misses.
ClassifyMessages ==
  { <<>>,
    <<"n", "o">>,
    <<"c", "r", "e", "d", "i", "t">>,
    <<"N", "o", " ", "C", "r", "e", "d", "i", "t", "s">>,
    <<"l", "i", "m", "i", "t">>,
    <<"L", "I", "M", "I", "T", "!">>,
    <<"q", "u", "o", "t", "a">>,
    <<"a", " ", "Q", "u", "o", "t", "a">>,
    <<"r", "a", "t", "e", " ", "l", "i", "m", "i", "t">>,
    <<"R", "a", "t", "e", " ", "L", "i", "m", "i", "t">>,
    <<"r", "a", "t", "e", " ", "l", "i", "m", "i">>,
    <<"c", "r", "e", "d", "i">>,
    <<"q", "u", "o", " ", "t", "a">>,
    <<"l", "i", "m", "t">> }

Msg(role, content) == [role |-> role, content |-> content]

\* Histories the server may return for GET /conversations/:id
Histories ==
  { <<>>,
    << Msg("user", <<"h", "i">>), Msg("model", <<"a">>) >> }

\* Lists the server may return for GET /conversations
ServerLists ==
  { <<>>,
    << [id |-> "c1", title |-> "t1"] >>,
    << [id |-> "c2", title |-> "t2"], [id |-> "c1", title |-> "t1"] >> }

\* ------------------------------------------------------------------ text helpers
Upper == <<"A","B","C","D","E","F","G","H","I","J","K","L","M",
           "N","O","P","Q","R","S","T","U","V","W","X","Y","Z">>
Lower == <<"a","b","c","d","e","f","g","h","i","j","k","l","m",
           "n","o","p","q","r","s","t","u","v","w","x","y","z">>

ToLowerChar(ch) ==
  IF \E i \in 1..26 : Upper[i] = ch
    THEN Lower[CHOOSE i \in 1..26 : Upper[i] = ch]
    ELSE ch

ToLowerCase(s) == [i \in 1..Len(s) |-> ToLowerChar(s[i])]

Includes(s, t) ==
  \E i \in 1..(Len(s) - Len(t) + 1) : SubSeq(s, i, i + Len(t) - 1) = t

\* "An error occurred"
DefaultErrorMessage ==
  <<"A","n"," ","e","r","r","o","r"," ","o","c","c","u","r","r","e","d">>

\* the template prefix "<warning sign> Credits Limit Reached\n\n"
BannerMarker ==
  <<"<warning-sign>"," ","C","r","e","d","i","t","s"," ","L","i","m","i","t",
    " ","R","e","a","c","h","e","d","\n","\n">>

W_credit == <<"c","r","e","d","i","t">>
W_limit == <<"l","i","m","i","t">>
W_quota == <<"q","u","o","t","a">>
W_rate_limit == <<"r","a","t","e"," ","l","i","m","i","t">>

\* event.data.message || "An error occurred"
ErrorMessageOf(m) == IF m # <<>> THEN m ELSE DefaultErrorMessage

\* mutant: the text is matched without lower-casing
DisplayMessage_caseSensitive(m) ==
  LET errorMessage == ErrorMessageOf(m)
  IN  IF Includes(errorMessage, W_credit) \/ Includes(errorMessage, W_limit)
         \/ Includes(errorMessage, W_quota) \/ Includes(errorMessage, W_rate_limit)
        THEN BannerMarker \o errorMessage
        ELSE errorMessage

\* the displayMessage computed by case "error"
DisplayMessage(m) ==
  LET errorMessage == ErrorMessageOf(m)
      lc == ToLowerCase(errorMessage)
  IN  IF Includes(lc, W_credit) \/ Includes(lc, W_limit)
         \/ Includes(lc, W_quota) \/ Includes(lc, W_rate_limit)
        THEN BannerMarker \o errorMessage
        ELSE errorMessage

\* ------------------------------------------------------------------ sticky ledger
\* The value under localStorage["chat_errors"]: NoItem (key absent) or the
\* parsed object, a function from conversation ids to entries.  The
\* timestamp of an entry is never read by the code and is left out.
EmptyObject == [k \in {} |-> [content |-> <<>>]]
NoItem == [present |-> FALSE, obj |-> EmptyObject]
Item(obj) == [present |-> TRUE, obj |-> obj]

\* an optional content: None for null, Some(c) for the string c
None == <<>>
Some(content) == << content >>

\* stored ? JSON.parse(stored) : {}
getStoredErrors(item) == IF item.present THEN item.obj ELSE EmptyObject

\* mutant: the new entry replaces the whole ledger
storeError_alone(item, conversationId, errorContent) ==
  Item([k \in {conversationId} |-> [content |-> errorContent]])

\* mutant: an existing entry is kept
storeError_keep(item, conversationId, errorContent) ==
  LET errors == getStoredErrors(item)
  IN  Item([k \in DOMAIN errors \cup {conversationId} |->
         IF k \in DOMAIN errors THEN errors[k] ELSE [content |-> errorContent]])

storeError(item, conversationId, errorContent) ==
  LET errors == getStoredErrors(item)
  IN  Item([k \in DOMAIN errors \cup {conversationId} |->
         IF k = conversationId THEN [content |-> errorContent] ELSE errors[k]])

\* mutant: the entry is not deleted
removeError_keep(item, conversationId) == Item(getStoredErrors(item))

removeError(item, conversationId) ==
  LET errors == getStoredErrors(item)
  IN  Item([k \in DOMAIN errors \ {conversationId} |-> errors[k]])

\* mutant: the entry is never found
getErrorForConversation_none(item, conversationId) == None

getErrorForConversation(item, conversationId) ==
  LET errors == getStoredErrors(item)
  IN  IF conversationId \in DOMAIN errors /\ errors[conversationId].content # <<>>
        THEN Some(errors[conversationId].content)
        ELSE None

\* ------------------------------------------------------------------ list synchronizer
\* mutant: the entry is always inserted at the head
UpdateTitle_prepend(prev, id, title) == << [id |-> id, title |-> title] >> \o prev

\* mutant: the updated entry is moved to the head
UpdateTitle_toHead(prev, id, title) ==
  << [id |-> id, title |-> title] >> \o SelectSeq(prev, LAMBDA e : e.id # id)

\* the updater passed to setConversations by case "title"
UpdateTitle(prev, id, title) ==
  IF \E i \in 1..Len(prev) : prev[i].id = id
    THEN [i \in 1..Len(prev) |->
            IF prev[i].id = id THEN [prev[i] EXCEPT !.title = title] ELSE prev[i]]
    ELSE << [id |-> id, title |-> title] >> \o prev

\* the updater of case "done": [...prev, { role: "model", content }]
AppendModel(prev, content) == Append(prev, Msg("model", content))

\* mutant: the error message replaces the last message
AppendError_replace(prev, content) ==
  Append(IF Len(prev) = 0 THEN prev ELSE SubSeq(prev, 1, Len(prev) - 1),
         Msg("error", content))

\* the updater of case "error": [...prev, { role: "error", content }]
AppendError(prev, content) == Append(prev, Msg("error", content))

\* mutant: nothing is removed
SliceOffLast_keep(prev) == prev

\* prev.slice(0, -1)
SliceOffLast(prev) == IF Len(prev) = 0 THEN prev ELSE SubSeq(prev, 1, Len(prev) - 1)

\* mutant: the new chunk is put in front
Accumulate_prepend(acc, d) == d \o acc

\* accumulatedContent += event.data.content
Accumulate(acc, d) == acc \o d

\* ------------------------------------------------------------------ stream decoder
\* A response body is a sequence of tokens: the line break, the pieces of the
\* line prefixes ("data:", "event:", the space after them) and the pieces
\* of a JSON text: braces, brackets, scalars and whole fields, where a field
\* token stands for a "name": value pair and carries the field's name.
NL == "\n"
DataPrefix == << "data:", " " >>
EventPrefix == << "event:", " " >>
FieldTokens == { "conversation_id", "is_new", "content", "title", "message", "foo" }

StartsWith(line, prefix) ==
  /\ Len(line) >= Len(prefix)
  /\ SubSeq(line, 1, Len(prefix)) = prefix

\* line.slice(n)
Slice(line, n) == SubSeq(line, n + 1, Len(line))

\* text.split("\n"): the pieces between line breaks, at least one piece
RECURSIVE Split(_)
Split(text) ==
  IF \E i \in 1..Len(text) : text[i] = NL
    THEN LET i == CHOOSE k \in 1..Len(text) :
                    text[k] = NL /\ \A j \in 1..(k - 1) : text[j] # NL
         IN  << SubSeq(text, 1, i - 1) >> \o Split(SubSeq(text, i + 1, Len(text)))
    ELSE << text >>

\* JSON.parse(dataStr): an object with its field names, the number 0, null,
\* the empty array, or a SyntaxError
Parsed(kind, fields) == [kind |-> kind, fields |-> fields]

ParseJSON(ts) ==
  IF /\ Len(ts) >= 2
     /\ ts[1] = "{"
     /\ ts[Len(ts)] = "}"
     /\ \A i \in 2..(Len(ts) - 1) : ts[i] \in FieldTokens
    THEN Parsed("object", { ts[i] : i \in 2..(Len(ts) - 1) })
  ELSE IF ts = << "0" >> THEN Parsed("number", {})
  ELSE IF ts = << "null" >> THEN Parsed("null", {})
  ELSE IF ts = << "[", "]" >> THEN Parsed("array", {})
  ELSE Parsed("SyntaxError", {})

Event(type, data) == [type |-> type, data |-> data]

\* mutant: the title field is looked at before the content field
Classify_titleFirst(data) ==
  IF data.kind \in {"SyntaxError", "null"} THEN <<>>
  ELSE IF "conversation_id" \in data.fields THEN << Event("conversation", data) >>
  ELSE IF "title" \in data.fields THEN << Event("title", data) >>
  ELSE IF "content" \in data.fields THEN << Event("delta", data) >>
  ELSE IF "message" \in data.fields THEN << Event("error", data) >>
  ELSE IF data.fields = {} THEN << Event("done", data) >>
  ELSE <<>>

\* The body of the try block: the events handed to onEvent for one parsed
\* payload.  JSON.parse throwing, and reading a property of null throwing, end
\* in the catch; on a number or an empty array every property is undefined
\* and Object.keys(data) is empty.
Classify(data) ==
  IF data.kind \in {"SyntaxError", "null"} THEN <<>>
  ELSE IF "conversation_id" \in data.fields THEN << Event("conversation", data) >>
  ELSE IF "content" \in data.fields THEN << Event("delta", data) >>
  ELSE IF "title" \in data.fields THEN << Event("title", data) >>
  ELSE IF "message" \in data.fields THEN << Event("error", data) >>
  ELSE IF data.fields = {} THEN << Event("done", data) >>
  ELSE <<>>

\* one pass of the for loop's body
LineEvents(line) ==
  IF StartsWith(line, EventPrefix) THEN <<>>
  ELSE IF StartsWith(line, DataPrefix)
    THEN Classify(ParseJSON(Slice(line, Len(DataPrefix))))
  ELSE <<>>

RECURSIVE LinesEvents(_)
LinesEvents(lines) ==
  IF lines = <<>> THEN <<>> ELSE LineEvents(Head(lines)) \o LinesEvents(Tail(lines))

Front(q) == SubSeq(q, 1, Len(q) - 1)
Last(q) == q[Len(q)]

\* mutant: what is left after the last line break is thrown away
DecodeChunk_dropPartial(buffer, chunk) ==
  LET lines == Split(buffer \o chunk)
  IN  [buffer |-> <<>>, events |-> LinesEvents(Front(lines))]

\* One round of the read loop: buffer += chunk; lines = buffer.split("\n");
\* buffer = lines.pop() || ""; then every remaining line is processed.
DecodeChunk(buffer, chunk) ==
  LET lines == Split(buffer \o chunk)
  IN  [buffer |-> Last(lines), events |-> LinesEvents(Front(lines))]

\* Lines a server may write: the five kinds, payloads with several fields,
\* payloads of no known shape, texts that are no JSON, other JSON values,
\* an event line, a blank line and a data line without the space.
RecordLines ==
  { DataPrefix \o << "{", "}" >>,
    DataPrefix \o << "{", "content", "}" >>,
    DataPrefix \o << "{", "conversation_id", "}" >>,
    DataPrefix \o << "{", "title", "}" >>,
    DataPrefix \o << "{", "message", "}" >>,
    DataPrefix \o << "{", "title", "content", "}" >>,
    DataPrefix \o << "{", "message", "content", "conversation_id", "}" >>,
    DataPrefix \o << "{", "message", "title", "}" >>,
    DataPrefix \o << "{", "foo", "}" >>,
    DataPrefix \o << "{", "content" >>,
    DataPrefix \o << "0" >>,
    DataPrefix \o << "null" >>,
    DataPrefix \o << "[", "]" >>,
    EventPrefix \o << "done" >>,
    << "data:", "{", "}" >>,
    <<>> }

RECURSIVE Unlines(_)
Unlines(lines) ==
  IF lines = <<>> THEN <<>> ELSE Head(lines) \o << NL >> \o Unlines(Tail(lines))

\* The response bodies: up to MaxRecords lines, each ended by a line break,
\* except that the last one may be ended by the end of the stream instead.
Bodies ==
  LET lists == UNION { [1..k -> RecordLines] : k \in 0..MaxRecords }
  IN  { Unlines(ls) : ls \in lists }
        \cup { Unlines(Front(ls)) \o Last(ls) : ls \in { l \in lists : l # <<>> } }

\* ------------------------------------------------------------------ state
VARIABLES
  url,                    \* route parameter conversationId (Null on "/")
  conversations,          \* useState: sidebar list
  messages,               \* useState: transcript
  isLoading,              \* useState
  streamingContent,       \* useState
  currentConversationId,  \* useState
  chat_errors,            \* localStorage["chat_errors"]
  toasts,                 \* ToastProvider state
  timers,                 \* toast ids with a pending setTimeout removal
  lastToastId,            \* the latest Date.now() used as a toast id
  cycles,                 \* the sendMessage invocations accepted so far
  loads,                  \* conversationsApi.get calls in flight, request order
  listFetches,            \* conversationsApi.list calls in flight
  deletes,                \* conversationsApi.delete calls in flight
  effectPending,          \* "none" | "url" | "both": effects queued by the last commit
  navs,                   \* number of sidebar navigations
  reloads,                \* number of page reloads
  nToasts,                \* number of toasts fired
  scope,                  \* the bounds of this specification (never changes)
  last                    \* the operation that produced this state

hookState == << conversations, messages, isLoading, streamingContent,
                currentConversationId >>
toastState == << toasts, timers, lastToastId, nToasts >>
counters == << navs, reloads, scope >>
fetchState == << loads, listFetches, deletes >>

vars == << url, hookState, chat_errors, toastState, cycles, fetchState,
           effectPending, counters, last >>

Op(op, c) == [op |-> op, c |-> c]

\* A scope: the budgets of a behaviour and the values the server may send.
Scope(sends, events, navsMax, reloadsMax, toastsMax, deltas, errors, histories) ==
  [sends |-> sends, events |-> events, navs |-> navsMax, reloads |-> reloadsMax,
   toasts |-> toastsMax, deltas |-> deltas, errors |-> errors,
   histories |-> histories]

\* The page is opened on "/" or on "/chat/c1" (the ids are interchangeable).
InitState ==
  /\ url \in {Null, "c1"}
  /\ conversations = <<>>
  /\ messages = <<>>
  /\ isLoading = FALSE
  /\ streamingContent = <<>>
  /\ currentConversationId = url
  /\ chat_errors = NoItem
  /\ toasts = <<>>
  /\ timers = <<>>
  /\ lastToastId = 0
  /\ cycles = <<>>
  /\ loads = <<>>
  /\ listFetches = 0
  /\ deletes = <<>>
  /\ effectPending = "both"
  /\ navs = 0
  /\ reloads = 0
  /\ nToasts = 0
  /\ last = Op("mount", 0)

Init ==
  /\ InitState
  /\ scope = Scope(MaxSends, MaxEvents, 0, 0, MaxToasts,
                   DeltaContents, ErrorMessages, Histories)

\* ------------------------------------------------------------------ toasts
\* Date.now() is non-decreasing: a new id repeats the latest one (same
\* millisecond) or is larger.
NextToastIds == IF lastToastId = 0 THEN {1} ELSE {lastToastId, lastToastId + 1}

\* addToast(message, type, duration) with duration > 0
addToast(message, type) ==
  \E id \in NextToastIds :
    /\ nToasts < scope.toasts
    /\ nToasts' = nToasts + 1
    /\ toasts' = Append(toasts, [id |-> id, message |-> message, type |-> type])
    /\ timers' = Append(timers, id)
    /\ lastToastId' = id

RemoveAt(s, i) == SubSeq(s, 1, i - 1) \o SubSeq(s, i + 1, Len(s))

\* prev.filter((t) => t.id !== id)
FilterToasts(prev, id) == SelectSeq(prev, LAMBDA t : t.id # id)

\* the setTimeout callback of addToast
ToastTimer(i) ==
  /\ effectPending = "none"
  /\ i \in 1..Len(timers)
  /\ toasts' = FilterToasts(toasts, timers[i])
  /\ timers' = RemoveAt(timers, i)
  /\ effectPending' = "both"
  /\ last' = Op("toastTimer", 0)
  /\ UNCHANGED << url, hookState, chat_errors, lastToastId, nToasts, cycles, fetchState,
                  counters >>

\* removeToast(id), bound to a click on a displayed toast
removeToast(i) ==
  /\ effectPending = "none"
  /\ i \in 1..Len(toasts)
  /\ toasts' = FilterToasts(toasts, toasts[i].id)
  /\ effectPending' = "both"
  /\ last' = Op("removeToast", 0)
  /\ UNCHANGED << url, hookState, chat_errors, timers, lastToastId, nToasts, cycles,
                  fetchState, counters >>

\* toast.info(message, duration), called by any component under the
\* provider: the toast is displayed and, with duration > 0, a timer is set.
\* (undefined takes the default 5000 and is a case of duration > 0.)
Notify(message, duration) ==
  /\ effectPending = "none"
  /\ nToasts < scope.toasts
  /\ nToasts' = nToasts + 1
  /\ \E id \in NextToastIds :
       /\ toasts' = Append(toasts, [id |-> id, message |-> message, type |-> "info"])
       /\ timers' = IF duration > 0 THEN Append(timers, id) ELSE timers
       /\ lastToastId' = id
  /\ effectPending' = "both"
  /\ last' = Op("notify", 0)
  /\ UNCHANGED << url, hookState, chat_errors, cycles, fetchState, counters >>

\* ------------------------------------------------------------------ effects
\* The effects of useChat, run after a commit that changed one of their
\* dependencies: the route parameter (effect on conversationId) or the toast
\* context value, which is a fresh object at every render of ToastProvider
\* and a dependency of loadConversations and loadConversation.
RunEffects ==
  /\ effectPending # "none"
  /\ url # Null => Len(loads) < MaxLoads
  /\ listFetches' = IF effectPending = "both" /\ listFetches < MaxListPending
                      THEN listFetches + 1 ELSE listFetches
  /\ IF url # Null
       THEN /\ loads' = Append(loads, url)
            /\ UNCHANGED << messages, currentConversationId >>
       ELSE /\ messages' = <<>>
            /\ currentConversationId' = Null
            /\ UNCHANGED loads
  /\ effectPending' = "none"
  /\ last' = Op("effects", 0)
  /\ UNCHANGED << url, conversations, isLoading, streamingContent, chat_errors,
                  toastState, cycles, deletes, counters >>

\* ------------------------------------------------------------------ loading
\* loadConversations: the list request succeeds with the server's list
ListOk(data) ==
  /\ effectPending = "none"
  /\ listFetches > 0
  /\ listFetches' = listFetches - 1
  /\ conversations' = data
  /\ last' = Op("listOk", 0)
  /\ UNCHANGED << url, messages, isLoading, streamingContent, currentConversationId,
                  chat_errors, toastState, cycles, loads, deletes, effectPending,
                  counters >>

\* loadConversations: the list request fails
ListFail ==
  /\ effectPending = "none"
  /\ listFetches > 0
  /\ listFetches' = listFetches - 1
  /\ addToast("Failed to load conversations", "error")
  /\ effectPending' = "both"
  /\ last' = Op("listFail", 0)
  /\ UNCHANGED << url, hookState, chat_errors, cycles, loads, deletes, counters >>

\* mutant: the stored error is put in front of the history
LoadedTranscript_front(loadedMessages, storedError) ==
  IF storedError # None
    THEN << Msg("error", storedError[1]) >> \o loadedMessages
    ELSE loadedMessages

\* what loadConversation(id) puts in the transcript once the fetch returned
LoadedTranscript(loadedMessages, storedError) ==
  IF storedError # None
    THEN Append(loadedMessages, Msg("error", storedError[1]))
    ELSE loadedMessages

\* loadConversation(id): conversationsApi.get returns data.messages
LoadOk(i, loadedMessages) ==
  /\ effectPending = "none"
  /\ i \in 1..Len(loads)
  /\ messages' = LoadedTranscript(loadedMessages,
                                  getErrorForConversation(chat_errors, loads[i]))
  /\ currentConversationId' = loads[i]
  /\ loads' = RemoveAt(loads, i)
  /\ last' = Op("loadOk", 0)
  /\ UNCHANGED << url, conversations, isLoading, streamingContent, chat_errors,
                  toastState, cycles, listFetches, deletes, effectPending, counters >>

\* loadConversation(id): conversationsApi.get throws
LoadFail(i) ==
  /\ effectPending = "none"
  /\ i \in 1..Len(loads)
  /\ addToast("Failed to load conversation", "error")
  /\ url' = Null
  /\ loads' = RemoveAt(loads, i)
  /\ effectPending' = "both"
  /\ last' = Op("loadFail", 0)
  /\ UNCHANGED << hookState, chat_errors, cycles, listFetches, deletes, counters >>

\* ------------------------------------------------------------------ navigation
\* Sidebar.handleConversationClick: navigate(`/chat/${id}`)
ClickConversation(id) ==
  /\ effectPending = "none"
  /\ navs < scope.navs
  /\ navs' = navs + 1
  /\ url # id
  /\ url' = id
  /\ effectPending' = "url"
  /\ last' = Op("click", 0)
  /\ UNCHANGED << hookState, chat_errors, toastState, cycles, fetchState, reloads, scope >>

\* mutant: newChat clears the stored errors as well
NewChat_clearsErrors ==
  /\ effectPending = "none"
  /\ navs < scope.navs
  /\ navs' = navs + 1
  /\ messages' = <<>>
  /\ currentConversationId' = Null
  /\ streamingContent' = <<>>
  /\ chat_errors' = Item(EmptyObject)
  /\ url' = Null
  /\ effectPending' = IF url # Null THEN "url" ELSE "none"
  /\ last' = Op("newChat", 0)
  /\ UNCHANGED << conversations, isLoading, toastState, cycles,
                  fetchState, reloads, scope >>

\* Sidebar.handleNewChat: newChat() then navigate("/")
NewChat ==
  /\ effectPending = "none"
  /\ navs < scope.navs
  /\ navs' = navs + 1
  /\ messages' = <<>>
  /\ currentConversationId' = Null
  /\ streamingContent' = <<>>
  /\ url' = Null
  /\ effectPending' = IF url # Null THEN "url" ELSE "none"
  /\ last' = Op("newChat", 0)
  /\ UNCHANGED << conversations, isLoading, chat_errors, toastState, cycles,
                  fetchState, reloads, scope >>

\* A page reload: process-local state is rebuilt, localStorage and the URL stay.
Reload ==
  /\ reloads < scope.reloads
  /\ reloads' = reloads + 1
  /\ conversations' = <<>>
  /\ messages' = <<>>
  /\ isLoading' = FALSE
  /\ streamingContent' = <<>>
  /\ currentConversationId' = url
  /\ toasts' = <<>>
  /\ timers' = <<>>
  /\ lastToastId' = 0
  /\ cycles' = [c \in 1..Len(cycles) |->
                  IF cycles[c].phase = "open"
                    THEN [cycles[c] EXCEPT !.phase = "aborted"] ELSE cycles[c]]
  /\ loads' = <<>>
  /\ listFetches' = 0
  /\ deletes' = <<>>
  /\ effectPending' = "both"
  /\ last' = Op("reload", 0)
  /\ UNCHANGED << url, chat_errors, nToasts, navs, scope >>

\* ------------------------------------------------------------------ deletion
\* prev.filter((c) => c.id !== conversationId)
FilterConversations(prev, id) == SelectSeq(prev, LAMBDA c : c.id # id)

\* Sidebar.confirmDelete: deleteConversation(id) is called for an entry of
\* the list and awaits conversationsApi.delete.  The callback is the one of
\* the latest render, so `active` is the currentConversationId its closure
\* holds for the rest of the call.
DeleteCall(id) ==
  /\ effectPending = "none"
  /\ \E k \in 1..Len(conversations) : conversations[k].id = id
  /\ Len(deletes) < MaxDeletes
  /\ deletes' = Append(deletes, [id |-> id, active |-> currentConversationId])
  /\ last' = Op("deleteCall", 0)
  /\ UNCHANGED << url, hookState, chat_errors, toastState, cycles, loads,
                  listFetches, effectPending, counters >>

\* mutant: a successful deletion leaves the stored error of the conversation
DeleteOk_keepsSticky(i) ==
  /\ effectPending = "none"
  /\ i \in 1..Len(deletes)
  /\ conversations' = FilterConversations(conversations, deletes[i].id)
  /\ IF deletes[i].active = deletes[i].id
       THEN /\ url' = Null
            /\ messages' = <<>>
            /\ currentConversationId' = Null
       ELSE UNCHANGED << url, messages, currentConversationId >>
  /\ addToast("Conversation deleted", "success")
  /\ deletes' = RemoveAt(deletes, i)
  /\ effectPending' = "both"
  /\ last' = Op("deleteOk", 0)
  /\ UNCHANGED << isLoading, streamingContent, chat_errors, cycles, loads,
                  listFetches, counters >>

\* deleteConversation(id): the request succeeded
DeleteOk(i) ==
  /\ effectPending = "none"
  /\ i \in 1..Len(deletes)
  /\ conversations' = FilterConversations(conversations, deletes[i].id)
  /\ chat_errors' = removeError(chat_errors, deletes[i].id)
  /\ IF deletes[i].active = deletes[i].id
       THEN /\ url' = Null
            /\ messages' = <<>>
            /\ currentConversationId' = Null
       ELSE UNCHANGED << url, messages, currentConversationId >>
  /\ addToast("Conversation deleted", "success")
  /\ deletes' = RemoveAt(deletes, i)
  /\ effectPending' = "both"
  /\ last' = Op("deleteOk", 0)
  /\ UNCHANGED << isLoading, streamingContent, cycles, loads, listFetches,
                  counters >>

\* mutant: a failed deletion removes the entry from the list all the same
DeleteFail_filters(i) ==
  /\ effectPending = "none"
  /\ i \in 1..Len(deletes)
  /\ conversations' = FilterConversations(conversations, deletes[i].id)
  /\ addToast("Failed to delete conversation", "error")
  /\ deletes' = RemoveAt(deletes, i)
  /\ effectPending' = "both"
  /\ last' = Op("deleteFail", 0)
  /\ UNCHANGED << url, messages, isLoading, streamingContent,
                  currentConversationId, chat_errors, cycles, loads,
                  listFetches, counters >>

\* deleteConversation(id): conversationsApi.delete throws (network error,
\* non-2xx status, the conversation is already gone)
DeleteFail(i) ==
  /\ effectPending = "none"
  /\ i \in 1..Len(deletes)
  /\ addToast("Failed to delete conversation", "error")
  /\ deletes' = RemoveAt(deletes, i)
  /\ effectPending' = "both"
  /\ last' = Op("deleteFail", 0)
  /\ UNCHANGED << url, hookState, chat_errors, cycles, loads, listFetches,
                  counters >>

\* ------------------------------------------------------------------ send-cycle
\* mutant: the request carries the id of the route, not the active id
NewCycle_routeId(content) ==
  [ content |-> content,
    reqId |-> url,
    newConversationId |-> currentConversationId,
    accumulatedContent |-> <<>>,
    phase |-> "open",
    deltas |-> <<>>,
    nEvents |-> 0,
    terminals |-> <<>>,
    responded |-> FALSE,
    body |-> <<>>,
    buffer |-> <<>>,
    queue |-> <<>>,
    emitted |-> <<>>,
    received |-> <<>>,
    joined |-> 0,
    pre |-> messages,
    notified |-> 0 ]

\* One record per accepted sendMessage call.  content, newConversationId and
\* accumulatedContent are the closure's variables; reqId is the conversation_id
\* of the request body; phase is the position of chatApi.sendMessage:
\* "open" (request issued, stream not finished), "returned" (reader done),
\* "failed" (the catch block ran), "aborted" (page reloaded under it).
\* deltas, nEvents, terminals, pre and notified record the cycle's history:
\* the delta contents in arrival order, the number of events delivered, the
\* done and error events in arrival order, the transcript before the send
\* and the number of toasts the cycle fired.
\* responded, body, buffer and queue are the state of chatApi.sendMessage
\* once the response has arrived: the part of the body not yet read, the
\* read loop's buffer and the events of the current chunk not yet handed to
\* onEvent; emitted, received and joined record all events decoded so far,
\* the text read so far and the number of lines that were completed by a
\* later chunk than the one they began in and gave an event.
NewCycle(content) ==
  [ content |-> content,
    reqId |-> currentConversationId,
    newConversationId |-> currentConversationId,
    accumulatedContent |-> <<>>,
    phase |-> "open",
    deltas |-> <<>>,
    nEvents |-> 0,
    terminals |-> <<>>,
    responded |-> FALSE,
    body |-> <<>>,
    buffer |-> <<>>,
    queue |-> <<>>,
    emitted |-> <<>>,
    received |-> <<>>,
    joined |-> 0,
    pre |-> messages,
    notified |-> 0 ]

\* mutant: no isLoading guard
sendMessage_unguarded(content) ==
  /\ effectPending = "none"
  /\ Len(cycles) < scope.sends
  /\ messages' = Append(messages, Msg("user", content))
  /\ isLoading' = TRUE
  /\ streamingContent' = <<>>
  /\ cycles' = Append(cycles, NewCycle(content))
  /\ last' = Op("send", Len(cycles) + 1)
  /\ UNCHANGED << url, conversations, currentConversationId, chat_errors,
                  toastState, fetchState, effectPending, counters >>

\* sendMessage(content), called by ChatInput's onSend
sendMessage(content) ==
  /\ effectPending = "none"
  /\ IF isLoading
       THEN /\ last' = Op("sendDropped", 0)
            /\ UNCHANGED << messages, isLoading, streamingContent, cycles >>
       ELSE /\ Len(cycles) < scope.sends
            /\ messages' = Append(messages, Msg("user", content))
            /\ isLoading' = TRUE
            /\ streamingContent' = <<>>
            /\ cycles' = Append(cycles, NewCycle(content))
            /\ last' = Op("send", Len(cycles) + 1)
  /\ UNCHANGED << url, conversations, currentConversationId, chat_errors,
                  toastState, fetchState, effectPending, counters >>

\* the read loop can deliver one more event to cycle c
RECURSIVE EventsDelivered(_)
EventsDelivered(cs) ==
  IF cs = <<>> THEN 0 ELSE Head(cs).nEvents + EventsDelivered(Tail(cs))

CanDeliver(c) ==
  /\ effectPending = "none"
  /\ c \in 1..Len(cycles)
  /\ cycles[c].phase = "open"
  /\ EventsDelivered(cycles) < scope.events

\* onEvent was called once more; the event is the first of the chunk's
\* events still to be handed over, when the cycle reads a response body
Delivered(c) ==
  [cycles[c] EXCEPT !.nEvents = @ + 1,
                    !.queue = IF @ = <<>> THEN @ ELSE Tail(@)]

\* case "conversation"
OnConversation(c, conversation_id, is_new) ==
  /\ CanDeliver(c)
  /\ cycles' = [cycles EXCEPT ![c] =
                  [Delivered(c) EXCEPT !.newConversationId = conversation_id]]
  /\ currentConversationId' = conversation_id
  /\ IF is_new
       THEN /\ url' = conversation_id
            /\ effectPending' = IF url # conversation_id THEN "url" ELSE "none"
       ELSE UNCHANGED << url, effectPending >>
  /\ last' = Op("conversation", c)
  /\ UNCHANGED << conversations, messages, isLoading, streamingContent, chat_errors,
                  toastState, fetchState, counters >>

\* case "delta"
OnDelta(c, content) ==
  /\ CanDeliver(c)
  /\ LET acc == Accumulate(cycles[c].accumulatedContent, content)
     IN  /\ cycles' = [cycles EXCEPT ![c] =
                         [Delivered(c) EXCEPT !.accumulatedContent = acc,
                                              !.deltas = Append(@, content)]]
         /\ streamingContent' = acc
  /\ last' = Op("delta", c)
  /\ UNCHANGED << url, conversations, messages, isLoading, currentConversationId,
                  chat_errors, toastState, fetchState, effectPending, counters >>

\* case "title"
OnTitle(c, title) ==
  /\ CanDeliver(c)
  /\ cycles' = [cycles EXCEPT ![c] = Delivered(c)]
  /\ conversations' = UpdateTitle(conversations, cycles[c].newConversationId, title)
  /\ last' = Op("title", c)
  /\ UNCHANGED << url, messages, isLoading, streamingContent, currentConversationId,
                  chat_errors, toastState, fetchState, effectPending, counters >>

\* case "done"
OnDone(c) ==
  /\ CanDeliver(c)
  /\ cycles' = [cycles EXCEPT ![c] =
                  [Delivered(c) EXCEPT !.terminals = Append(@, "done")]]
  /\ IF cycles[c].accumulatedContent # <<>>
       THEN /\ messages' = AppendModel(messages, cycles[c].accumulatedContent)
            /\ chat_errors' = IF cycles[c].newConversationId # Null
                                THEN removeError(chat_errors, cycles[c].newConversationId)
                                ELSE chat_errors
       ELSE UNCHANGED << messages, chat_errors >>
  /\ streamingContent' = <<>>
  /\ isLoading' = FALSE
  /\ last' = Op("done", c)
  /\ UNCHANGED << url, conversations, currentConversationId, toastState, fetchState,
                  effectPending, counters >>

\* case "error"
OnError(c, message) ==
  /\ CanDeliver(c)
  /\ cycles' = [cycles EXCEPT ![c] =
                  [Delivered(c) EXCEPT !.terminals = Append(@, "error")]]
  /\ LET displayMessage == DisplayMessage(message)
     IN  /\ chat_errors' = IF cycles[c].newConversationId # Null
                             THEN storeError(chat_errors, cycles[c].newConversationId,
                                             displayMessage)
                             ELSE chat_errors
         /\ messages' = AppendError(messages, displayMessage)
  /\ streamingContent' = <<>>
  /\ isLoading' = FALSE
  /\ last' = Op("error", c)
  /\ UNCHANGED << url, conversations, currentConversationId, toastState, fetchState,
                  effectPending, counters >>

\* mutant: the failure is also written to the ledger
Catch_sticky(c) ==
  /\ effectPending = "none"
  /\ c \in 1..Len(cycles)
  /\ cycles[c].phase = "open"
  /\ addToast("send failed", "error")
  /\ isLoading' = FALSE
  /\ streamingContent' = <<>>
  /\ messages' = SliceOffLast(messages)
  /\ chat_errors' = IF cycles[c].newConversationId # Null
                      THEN storeError(chat_errors, cycles[c].newConversationId,
                                      <<"s", "e", "n", "d">>)
                      ELSE chat_errors
  /\ cycles' = [cycles EXCEPT ![c].phase = "failed", ![c].notified = @ + 1]
  /\ effectPending' = "both"
  /\ last' = Op("catch", c)
  /\ UNCHANGED << url, conversations, currentConversationId, fetchState, counters >>

\* the catch block: fetch rejected, response not ok, or reader.read() rejected
Catch(c) ==
  /\ effectPending = "none"
  /\ c \in 1..Len(cycles)
  /\ cycles[c].phase = "open"
  /\ addToast("send failed", "error")
  /\ isLoading' = FALSE
  /\ streamingContent' = <<>>
  /\ messages' = SliceOffLast(messages)
  /\ cycles' = [cycles EXCEPT ![c].phase = "failed", ![c].notified = @ + 1]
  /\ effectPending' = "both"
  /\ last' = Op("catch", c)
  /\ UNCHANGED << url, conversations, currentConversationId, chat_errors,
                  fetchState, counters >>

\* reader.read() reports done: chatApi.sendMessage returns
StreamEnd(c) ==
  /\ effectPending = "none"
  /\ c \in 1..Len(cycles)
  /\ cycles[c].phase = "open"
  /\ cycles' = [cycles EXCEPT ![c].phase = "returned"]
  /\ last' = Op("streamEnd", c)
  /\ UNCHANGED << url, hookState, chat_errors, toastState, fetchState,
                  effectPending, counters >>

\* ------------------------------------------------------------------ storage faults
\* localStorage.setItem throws (quota exceeded, storage disabled).  storeError
\* and removeError do not catch it, so it leaves the handler at the call;
\* the try/catch around onEvent in the read loop swallows it and the loop
\* goes on.
\* case "error": storeError throws before setMessages is reached
OnErrorSetItemThrows(c, message) ==
  /\ CanDeliver(c)
  /\ cycles[c].newConversationId # Null
  /\ cycles' = [cycles EXCEPT ![c] =
                  [Delivered(c) EXCEPT !.terminals = Append(@, "error")]]
  /\ last' = Op("errorWriteFails", c)
  /\ UNCHANGED << url, hookState, chat_errors, toastState, fetchState,
                  effectPending, counters >>

\* case "done": removeError throws after setMessages, before
\* setStreamingContent and setIsLoading
OnDoneSetItemThrows(c) ==
  /\ CanDeliver(c)
  /\ cycles[c].accumulatedContent # <<>>
  /\ cycles[c].newConversationId # Null
  /\ cycles' = [cycles EXCEPT ![c] =
                  [Delivered(c) EXCEPT !.terminals = Append(@, "done")]]
  /\ messages' = AppendModel(messages, cycles[c].accumulatedContent)
  /\ last' = Op("doneWriteFails", c)
  /\ UNCHANGED << url, conversations, isLoading, streamingContent,
                  currentConversationId, chat_errors, toastState, fetchState,
                  effectPending, counters >>

\* ------------------------------------------------------------------ read loop
\* fetch resolved with an ok response whose body will be text
Respond(c, text) ==
  /\ effectPending = "none"
  /\ c \in 1..Len(cycles)
  /\ cycles[c].phase = "open"
  /\ ~cycles[c].responded
  /\ cycles' = [cycles EXCEPT ![c].responded = TRUE, ![c].body = text]
  /\ last' = Op("respond", c)
  /\ UNCHANGED << url, hookState, chat_errors, toastState, fetchState,
                  effectPending, counters >>

\* reader.read() resolves with the next n tokens of the body; the lines the
\* chunk completes are decoded and their events are due to onEvent
ReadChunk(c, n) ==
  /\ effectPending = "none"
  /\ c \in 1..Len(cycles)
  /\ cycles[c].phase = "open"
  /\ cycles[c].responded
  /\ cycles[c].queue = <<>>
  /\ n \in 1..Len(cycles[c].body)
  /\ LET chunk == SubSeq(cycles[c].body, 1, n)
         lines == Split(cycles[c].buffer \o chunk)
         d == DecodeChunk(cycles[c].buffer, chunk)
         carried == /\ cycles[c].buffer # <<>>
                    /\ Len(lines) > 1
                    /\ LineEvents(Head(lines)) # <<>>
     IN  cycles' = [cycles EXCEPT
                      ![c].body = Slice(@, n),
                      ![c].buffer = d.buffer,
                      ![c].queue = d.events,
                      ![c].emitted = @ \o d.events,
                      ![c].received = @ \o chunk,
                      ![c].joined = IF carried THEN @ + 1 ELSE @]
  /\ last' = Op("read", c)
  /\ UNCHANGED << url, hookState, chat_errors, toastState, fetchState,
                  effectPending, counters >>

\* the for loop hands the next event of the chunk to onEvent; the payload's
\* values are those the field tokens stand for
Dispatch(c) ==
  /\ c \in 1..Len(cycles)
  /\ cycles[c].queue # <<>>
  /\ LET e == Head(cycles[c].queue)
     IN  \/ /\ e.type = "conversation"
            /\ OnConversation(c, "c1", "is_new" \in e.data.fields)
         \/ /\ e.type = "delta"
            /\ OnDelta(c, << "a" >>)
         \/ /\ e.type = "title"
            /\ OnTitle(c, "t1")
         \/ /\ e.type = "done"
            /\ OnDone(c)
         \/ /\ e.type = "error"
            /\ OnError(c, << "n", "o" >>)

\* reader.read() reports done after the whole body was read
ReaderDone(c) ==
  /\ c \in 1..Len(cycles)
  /\ cycles[c].responded
  /\ cycles[c].body = <<>>
  /\ cycles[c].queue = <<>>
  /\ StreamEnd(c)

\* ------------------------------------------------------------------ ledger calls
\* the arguments the ledger's functions are called with
StoreIds == { "c1", "c2", "c3" }
StoreContents == { <<>>, <<"n", "o">>, <<"b", "o", "o", "m">> }

\* a call storeError(conversationId, errorContent)
Put(conversationId, errorContent) ==
  /\ chat_errors' = storeError(chat_errors, conversationId, errorContent)
  /\ last' = Op("put", 0)
  /\ UNCHANGED << url, hookState, toastState, cycles, fetchState, effectPending,
                  counters >>

\* a call removeError(conversationId)
Remove(conversationId) ==
  /\ chat_errors' = removeError(chat_errors, conversationId)
  /\ last' = Op("remove", 0)
  /\ UNCHANGED << url, hookState, toastState, cycles, fetchState, effectPending,
                  counters >>

\* ------------------------------------------------------------------ specification
CycleIds == 1..Len(cycles)

CycleSteps ==
  \/ \E content \in Texts : sendMessage(content)
  \/ \E c \in CycleIds, id \in Ids, is_new \in BOOLEAN : OnConversation(c, id, is_new)
  \/ \E c \in CycleIds, d \in scope.deltas : OnDelta(c, d)
  \/ \E c \in CycleIds : OnDone(c)
  \/ \E c \in CycleIds, m \in scope.errors : OnError(c, m)
  \/ \E c \in CycleIds : Catch(c)
  \/ \E c \in CycleIds : StreamEnd(c)

LoadSteps ==
  \/ RunEffects
  \/ \E i \in 1..Len(loads), h \in scope.histories : LoadOk(i, h)
  \/ \E i \in 1..Len(loads) : LoadFail(i)

ToastSteps ==
  \/ \E i \in 1..Len(toasts) : removeToast(i)
  \/ \E i \in 1..Len(timers) : ToastTimer(i)

NavSteps ==
  \/ \E id \in Ids : ClickConversation(id)
  \/ NewChat
  \/ Reload

ListSteps ==
  \/ \E c \in CycleIds, t \in Titles : OnTitle(c, t)
  \/ \E data \in ServerLists : ListOk(data)
  \/ ListFail

\* One send-cycle against the stream, the loads the effects start and the
\* toasts.  The sidebar list is left out: no step here reads it.
Next == CycleSteps \/ LoadSteps \/ ToastSteps

Spec == Init /\ [][Next]_vars

\* Two sends in one session; the stream's payloads are cut down to one
\* delta content and one error message.
InitTwo ==
  /\ InitState
  /\ scope = Scope(TwoSends, TwoEvents, 0, 0, TwoToasts,
                   { <<"a">> }, { <<"n", "o">> }, { <<>> })

SpecTwo == InitTwo /\ [][Next]_vars

\* One send-cycle, the sidebar (open a conversation, new chat) and a page
\* reload; the server's histories are the empty one and one exchange.
InitNav ==
  /\ InitState
  /\ scope = Scope(NavSends, NavEvents, NavNavs, NavReloads, NavToasts,
                   { <<"a">> }, { <<"n", "o">> }, Histories)

NextNav == Next \/ NavSteps

SpecNav == InitNav /\ [][NextNav]_vars

\* The sidebar list: title events of up to two cycles and the list loads.
InitList ==
  /\ InitState
  /\ scope = Scope(ListSends, ListEvents, 0, 0, ListToasts,
                   { <<"a">> }, { <<"n", "o">> }, { <<>> })

\* The steps that read or write the list, bind a cycle's conversation id,
\* or open the way to a second send; the others do none of these.
NextList ==
  \/ \E content \in Texts : sendMessage(content)
  \/ \E c \in CycleIds, id \in Ids, is_new \in BOOLEAN : OnConversation(c, id, is_new)
  \/ \E c \in CycleIds : OnDone(c)
  \/ \E c \in CycleIds : StreamEnd(c)
  \/ RunEffects
  \/ \E i \in 1..Len(loads), h \in scope.histories : LoadOk(i, h)
  \/ ToastSteps
  \/ ListSteps

SpecList == InitList /\ [][NextList]_vars

\* One send-cycle whose error events carry the texts of ClassifyMessages.
InitClassify ==
  /\ InitState
  /\ scope = Scope(ClassifySends, ClassifyEvents, 0, 0, ClassifyToasts,
                   { <<"a">> }, ClassifyMessages, { <<>> })

SpecClassify == InitClassify /\ [][Next]_vars

\* One send-cycle in a new chat while the server's history of the
\* conversation is the exchange itself: the user message and the reply.
TheExchange == << Msg("user", <<"h", "i">>), Msg("model", <<"a">>) >>

InitRoundTrip ==
  /\ InitState
  /\ scope = Scope(MaxSends, MaxEvents, 0, 0, MaxToasts,
                   { <<"a">> }, { <<"n", "o">> }, { TheExchange })

SpecRoundTrip == InitRoundTrip /\ [][Next]_vars

\* One send-cycle while a write to localStorage may throw.
InitFault ==
  /\ InitState
  /\ scope = Scope(FaultSends, FaultEvents, 0, 0, FaultToasts,
                   { <<"a">> }, { <<"n", "o">> }, { <<>> })

FaultSteps ==
  \/ \E c \in CycleIds, m \in scope.errors : OnErrorSetItemThrows(c, m)
  \/ \E c \in CycleIds : OnDoneSetItemThrows(c)

NextFault == Next \/ FaultSteps

SpecFault == InitFault /\ [][NextFault]_vars

\* The ledger's functions called in any order with any of the arguments.
InitStore ==
  /\ InitState
  /\ scope = Scope(0, 0, 0, 0, 0, {}, {}, {})

NextStore ==
  \/ \E id \in StoreIds, content \in StoreContents : Put(id, content)
  \/ \E id \in StoreIds : Remove(id)

SpecStore == InitStore /\ [][NextStore]_vars

\* One send-cycle in a new chat whose events are those the read loop decodes
\* from a response body of Bodies, delivered in chunks of any sizes.
InitDecoder ==
  /\ InitState
  /\ url = Null
  /\ scope = Scope(DecoderSends, DecoderEvents, 0, 0, 0,
                   { <<"a">> }, { <<"n", "o">> }, { <<>> })

NextDecoder ==
  \/ \E content \in Texts : sendMessage(content)
  \/ \E c \in CycleIds, text \in Bodies : Respond(c, text)
  \/ \E c \in CycleIds : \E n \in 1..Len(cycles[c].body) : ReadChunk(c, n)
  \/ \E c \in CycleIds : Dispatch(c)
  \/ \E c \in CycleIds : ReaderDone(c)
  \/ RunEffects

SpecDecoder == InitDecoder /\ [][NextDecoder]_vars

\* Deleting conversations of the list while one is displayed, a stored
\* error may exist and one navigation may happen between a deletion's call
\* and its answer.  The page is opened on "/chat/c1", the server lists both
\* conversations, and the toasts stay (no step here reads them).
InitDelete ==
  /\ InitState
  /\ url = "c1"
  /\ scope = Scope(DeleteSends, DeleteEvents, DeleteNavs, 0, DeleteToasts,
                   { <<"a">> }, { <<"n", "o">> },
                   { << Msg("user", <<"h", "i">>), Msg("model", <<"a">>) >> })

DeleteSteps ==
  \/ \E id \in Ids : DeleteCall(id)
  \/ \E i \in 1..Len(deletes) : DeleteOk(i)
  \/ \E i \in 1..Len(deletes) : DeleteFail(i)

NextDelete ==
  \/ \E content \in Texts : sendMessage(content)
  \/ \E c \in CycleIds, m \in scope.errors : OnError(c, m)
  \/ RunEffects
  \/ \E i \in 1..Len(loads), h \in scope.histories : LoadOk(i, h)
  \/ \E data \in ServerLists : Len(data) = 2 /\ ListOk(data)
  \/ \E id \in Ids : ClickConversation(id)
  \/ DeleteSteps

SpecDelete == InitDelete /\ [][NextDelete]_vars

\* The toast provider alone on "/": notifications with and without a
\* duration, their timers, clicks on displayed toasts, and the effects of
\* useChat that every change of the toasts re-runs.  A caller names a
\* notification it fires with duration 0 "pinned" and the others "brief".
InitToast ==
  /\ InitState
  /\ url = Null
  /\ scope = Scope(0, 0, 0, 0, ToastToasts, {}, {}, {})

NextToast ==
  \/ Notify("pinned", 0)
  \/ Notify("brief", 5000)
  \/ ToastSteps
  \/ RunEffects

SpecToast == InitToast /\ [][NextToast]_vars

\* The stored errors of two conversations.  The page is opened on
\* "/chat/c1" in a browser whose localStorage holds an error of c2 stored by
\* an earlier visit; a cycle gets error, delta and done events, and the
\* user starts new chats, opens conversations and deletes them.
InitSticky ==
  /\ url = "c1"
  /\ conversations = <<>>
  /\ messages = <<>>
  /\ isLoading = FALSE
  /\ streamingContent = <<>>
  /\ currentConversationId = url
  /\ chat_errors = storeError(NoItem, "c2", <<"o", "l", "d">>)
  /\ toasts = <<>>
  /\ timers = <<>>
  /\ lastToastId = 0
  /\ cycles = <<>>
  /\ loads = <<>>
  /\ listFetches = 0
  /\ deletes = <<>>
  /\ effectPending = "both"
  /\ navs = 0
  /\ reloads = 0
  /\ nToasts = 0
  /\ last = Op("mount", 0)
  /\ scope = Scope(StickySends, StickyEvents, StickyNavs, 0, StickyToasts,
                   { <<"a">> }, { <<"n", "o">> }, { <<>> })

NextSticky ==
  \/ \E content \in Texts : sendMessage(content)
  \/ \E c \in CycleIds, d \in scope.deltas : OnDelta(c, d)
  \/ \E c \in CycleIds : OnDone(c)
  \/ \E c \in CycleIds, m \in scope.errors : OnError(c, m)
  \/ RunEffects
  \/ \E i \in 1..Len(loads), h \in scope.histories : LoadOk(i, h)
  \/ \E data \in ServerLists : Len(data) = 2 /\ ListOk(data)
  \/ \E id \in Ids : ClickConversation(id)
  \/ NewChat
  \/ \E id \in Ids : deletes = <<>> /\ DeleteCall(id)
  \/ \E i \in 1..Len(deletes) : DeleteOk(i)

SpecSticky == InitSticky /\ [][NextSticky]_vars

\* One send-cycle under fair scheduling: queued effects are run, and every
\* response stream ends, by exhaustion or by a failure.  Nothing is assumed
\* about the events a stream carries before it ends.
InitLive ==
  /\ InitState
  /\ scope = Scope(LiveSends, LiveEvents, 0, 0, LiveToasts,
                   { <<"a">> }, { <<"n", "o">> }, { <<>> })

StreamEnds == \E c \in CycleIds : StreamEnd(c) \/ Catch(c)

SpecLive ==
  /\ InitLive
  /\ [][Next]_vars
  /\ WF_vars(RunEffects)
  /\ WF_vars(StreamEnds)

\* ------------------------------------------------------------------ properties
RECURSIVE Concat(_)
Concat(ss) == IF ss = <<>> THEN <<>> ELSE Head(ss) \o Concat(Tail(ss))

\* the step just taken is operation op of cycle c
Did(op, c) == last'.op = op /\ last'.c = c

\* C1: on a done event the cycle commits one model message whose content is
\* the concatenation, in arrival order, of all delta contents it received,
\* and the streaming buffer is empty; when that concatenation is empty
\* nothing is appended.
C1_DoneCommitsConcatenation ==
  [][\A c \in 1..Len(cycles) :
       Did("done", c) =>
         LET cat == Concat(cycles[c].deltas)
         IN  /\ streamingContent' = <<>>
             /\ messages' = IF cat # <<>>
                              THEN Append(messages, Msg("model", cat))
                              ELSE messages]_vars

C1_Witness ==
  /\ last.op = "done"
  /\ cycles[last.c].deltas = << <<"a">>, <<"b">> >>
  /\ messages = Append(cycles[last.c].pre, Msg("user", cycles[last.c].content))
                  \o << Msg("model", <<"a", "b">>) >>
  /\ streamingContent = <<>>

\* the parsed ledger, read directly
Ledger == IF chat_errors.present THEN chat_errors.obj ELSE EmptyObject
LedgerAfter == IF chat_errors'.present THEN chat_errors'.obj ELSE EmptyObject

\* the transcript still is the one the cycle started from plus its user message
Undisturbed(c) ==
  messages = Append(cycles[c].pre, Msg("user", cycles[c].content))

\* C2: a sendMessage call made while isLoading is true changes nothing: no
\* cycle (request) is created, the transcript, the streaming buffer, the
\* active conversation id and the cycles in flight stay as they are.
C2_SendWhileLoadingIsNoOp ==
  [][(isLoading /\ last'.op \in {"send", "sendDropped"}) =>
       UNCHANGED << messages, streamingContent, currentConversationId, cycles,
                    isLoading, url, conversations, chat_errors, toastState,
                    fetchState >>]_vars

\* a call is dropped although the scope would allow a further send
C2_Witness ==
  /\ last.op = "sendDropped"
  /\ isLoading
  /\ Len(cycles) = 1
  /\ Len(cycles) < scope.sends
  /\ cycles[1].phase = "open"
  /\ messages = Append(cycles[1].pre, Msg("user", cycles[1].content))

C4_TransportFailureWritesNoSticky ==
  [][\A c \in 1..Len(cycles') :
       (Did("send", c) \/ Did("catch", c)) => chat_errors' = chat_errors]_vars

\* the second cycle failed before any event, the first one's sticky error is
\* still the only entry
C4_Witness ==
  /\ last.op = "catch"
  /\ last.c = 2
  /\ cycles[2].nEvents = 0
  /\ cycles[2].reqId = "c1"
  /\ DOMAIN Ledger = {"c1"}
  /\ Ledger["c1"].content = <<"n", "o">>

\* C5: an error event appends exactly one error-role message to the
\* transcript and removes nothing, so the cycle's user message stays where it
\* was, in front of the error message; the streaming buffer is cleared and
\* loading becomes false.
C5_ErrorEventKeepsUserMessage ==
  [][\A c \in 1..Len(cycles) :
       Did("error", c) =>
         /\ Len(messages') = Len(messages) + 1
         /\ SubSeq(messages', 1, Len(messages)) = messages
         /\ messages'[Len(messages')].role = "error"
         /\ Undisturbed(c) =>
              /\ messages'[Len(cycles[c].pre) + 1] = Msg("user", cycles[c].content)
              /\ Len(messages') = Len(cycles[c].pre) + 2
         /\ streamingContent' = <<>>
         /\ isLoading' = FALSE]_vars

C5_Witness ==
  /\ last.op = "error"
  /\ Len(messages) = Len(cycles[last.c].pre) + 2
  /\ messages[Len(messages) - 1] = Msg("user", cycles[last.c].content)
  /\ messages[Len(messages)].role = "error"
  /\ ~isLoading

\* C6 as stated: after an error event has appended an error message, the
\* ledger holds that content under the cycle's conversation id.
C6_Original ==
  [][\A c \in 1..Len(cycles) :
       Did("error", c) =>
         /\ cycles[c].newConversationId \in DOMAIN LedgerAfter
         /\ LedgerAfter[cycles[c].newConversationId].content
              = messages'[Len(messages')].content]_vars

\* C6 amended: after an error event has appended an error message, the
\* ledger holds exactly that content under the cycle's conversation id when
\* the cycle has one; a cycle without a conversation id (a new chat whose
\* stream has not delivered a conversation event) writes nothing.
C6_ErrorIsStoredUnderCycleId ==
  [][\A c \in 1..Len(cycles) :
       Did("error", c) =>
         IF cycles[c].newConversationId # Null
           THEN /\ cycles[c].newConversationId \in DOMAIN LedgerAfter
                /\ LedgerAfter[cycles[c].newConversationId].content
                     = messages'[Len(messages')].content
           ELSE chat_errors' = chat_errors]_vars

\* a second error event of a cycle whose conversation event bound c2
C6_Witness ==
  /\ last.op = "error"
  /\ cycles[last.c].reqId = Null
  /\ cycles[last.c].newConversationId = "c2"
  /\ "c2" \in DOMAIN Ledger
  /\ Ledger["c2"].content = messages[Len(messages)].content
  /\ Len(messages) >= 2
  /\ messages[Len(messages) - 1].role = "error"
  /\ messages[Len(messages) - 1].content # messages[Len(messages)].content

\* C7 as stated: every done event of a cycle for conversation C leaves the
\* ledger without an entry for C.
C7_Original ==
  [][\A c \in 1..Len(cycles) :
       (Did("done", c) /\ cycles[c].newConversationId # Null) =>
         cycles[c].newConversationId \notin DOMAIN LedgerAfter]_vars

\* C7 amended: a done event that commits a reply (non-empty accumulated
\* content) of a cycle for conversation C leaves the ledger without an entry
\* for C, so that a get for C returns nothing; a done event with no
\* accumulated content leaves the ledger as it is.
C7_DoneWithReplyClearsSticky ==
  [][\A c \in 1..Len(cycles) :
       (Did("done", c) /\ cycles[c].newConversationId # Null) =>
         IF Concat(cycles[c].deltas) # <<>>
           THEN /\ cycles[c].newConversationId \notin DOMAIN LedgerAfter
                /\ getErrorForConversation(chat_errors', cycles[c].newConversationId)
                     = None
           ELSE chat_errors' = chat_errors]_vars

\* error, delta, done in a cycle for c1: the entry the error wrote is gone
C7_Witness ==
  /\ last.op = "done"
  /\ cycles[last.c].reqId = "c1"
  /\ cycles[last.c].newConversationId = "c1"
  /\ cycles[last.c].nEvents = 3
  /\ Len(messages) >= 2
  /\ messages[Len(messages) - 1].role = "error"
  /\ messages[Len(messages)].role = "model"
  /\ chat_errors.present
  /\ "c1" \notin DOMAIN Ledger

\* C8: when the fetch of loadConversation(C) returns history h, the active
\* id becomes C and the transcript becomes h followed by one error message
\* carrying the ledger's content for C if the ledger has an entry for C, and
\* h alone if it has none; a page reload in between changes nothing of this.
C8_LoadRebuildsTranscript ==
  [][\A i \in 1..Len(loads), h \in scope.histories :
       (last'.op = "loadOk" /\ LoadOk(i, h)) =>
         /\ currentConversationId' = loads[i]
         /\ messages' = IF loads[i] \in DOMAIN Ledger
                          THEN Append(h, Msg("error", Ledger[loads[i]].content))
                          ELSE h]_vars

\* after a reload, c1 is loaded with its history and its sticky error
C8_Witness ==
  /\ last.op = "loadOk"
  /\ reloads = 1
  /\ currentConversationId = "c1"
  /\ "c1" \in DOMAIN Ledger
  /\ messages = << Msg("user", <<"h", "i">>), Msg("model", <<"a">>),
                   Msg("error", Ledger["c1"].content) >>
  /\ \A c \in 1..Len(cycles) : cycles[c].phase # "open"

\* the lower-cased text contains credit, limit, quota or rate limit
HasQuotaTerm(text) ==
  \E term \in { <<"c","r","e","d","i","t">>, <<"l","i","m","i","t">>,
                <<"q","u","o","t","a">>,
                <<"r","a","t","e"," ","l","i","m","i","t">> } :
    \E i \in 1..Len(text) :
      /\ i + Len(term) - 1 <= Len(text)
      /\ \A k \in 1..Len(term) : ToLowerChar(text[i + k - 1]) = term[k]

\* the content an error event put in the transcript, and the ledger's copy
Shown == messages'[Len(messages')].content
StoredFor(c) ==
  cycles[c].newConversationId # Null =>
    LedgerAfter[cycles[c].newConversationId].content = Shown

\* C9 as stated: the content is the banner marker followed by m when
\* lower-cased m contains one of the terms, and m itself otherwise.
C9_Original ==
  [][\A c \in 1..Len(cycles), m \in scope.errors :
       (last'.op = "error" /\ OnError(c, m)) =>
         /\ Shown = IF HasQuotaTerm(m) THEN BannerMarker \o m ELSE m
         /\ StoredFor(c)]_vars

\* C9 amended: for a non-empty message m the content put in the transcript
\* and in the ledger is the banner marker followed by m when lower-cased m
\* contains credit, limit, quota or rate limit, and m itself otherwise; an
\* empty message is replaced by "An error occurred", without banner.
C9_ErrorTextClassification ==
  [][\A c \in 1..Len(cycles), m \in scope.errors :
       (last'.op = "error" /\ OnError(c, m)) =>
         /\ Shown = IF m = <<>> THEN DefaultErrorMessage
                    ELSE IF HasQuotaTerm(m) THEN BannerMarker \o m
                    ELSE m
         /\ StoredFor(c)]_vars

\* "a Quota" was shown and stored with the banner
C9_Witness ==
  /\ last.op = "error"
  /\ cycles[last.c].newConversationId = "c1"
  /\ messages[Len(messages)] =
       Msg("error", BannerMarker \o <<"a", " ", "Q", "u", "o", "t", "a">>)
  /\ Ledger["c1"].content = BannerMarker \o <<"a", " ", "Q", "u", "o", "t", "a">>

HasId(list, id) == \E i \in 1..Len(list) : list[i].id = id

NoDuplicateIds(list) ==
  \A i, j \in 1..Len(list) : list[i].id = list[j].id => i = j

\* C10: the sidebar list never holds two entries with the same id; a title
\* event for an id leaves the list with an entry for that id and makes it
\* one longer exactly when the id was not in it before, however many title
\* events name the id; a title event whose (id, title) pair is already in
\* the list changes nothing.
C10_TitleInsertsOncePerId ==
  [][/\ NoDuplicateIds(conversations')
     /\ \A c \in 1..Len(cycles), t \in Titles :
          (last'.op = "title" /\ OnTitle(c, t)) =>
            LET id == cycles[c].newConversationId
            IN  /\ HasId(conversations', id)
                /\ Len(conversations') =
                     Len(conversations) + (IF HasId(conversations, id) THEN 0 ELSE 1)
                /\ (\E i \in 1..Len(conversations) :
                      conversations[i] = [id |-> id, title |-> t])
                     => conversations' = conversations]_vars

\* three events of one cycle (conversation c2, two titles) added one entry
C10_Witness ==
  /\ last.op = "title"
  /\ cycles[last.c].nEvents = 3
  /\ cycles[last.c].reqId = Null
  /\ cycles[last.c].newConversationId = "c2"
  /\ conversations = << [id |-> "c2", title |-> "t2"], [id |-> "c1", title |-> "t1"] >>
  /\ listFetches = 0

\* C11: a title event for id X with title t, when the list has an entry with
\* id X, changes only the title of that entry to t and leaves the length and
\* the order of the list as they are; when the list has no such entry, the
\* new entry {id: X, title: t} is put at the head in front of the unchanged
\* old list.  The transcript is not touched.
C11_TitleUpdatesInPlaceOrInsertsAtHead ==
  [][\A c \in 1..Len(cycles), t \in Titles :
       (last'.op = "title" /\ OnTitle(c, t)) =>
         LET id == cycles[c].newConversationId
         IN  /\ messages' = messages
             /\ IF HasId(conversations, id)
                  THEN /\ Len(conversations') = Len(conversations)
                       /\ \A i \in 1..Len(conversations) :
                            /\ conversations'[i].id = conversations[i].id
                            /\ conversations'[i].title =
                                 IF conversations[i].id = id
                                   THEN t ELSE conversations[i].title
                  ELSE conversations' =
                         << [id |-> id, title |-> t] >> \o conversations]_vars

\* the second entry of a loaded list was retitled where it stands
C11_Witness ==
  /\ last.op = "title"
  /\ cycles[last.c].newConversationId = "c1"
  /\ cycles[last.c].nEvents = 1
  /\ conversations = << [id |-> "c2", title |-> "t2"], [id |-> "c1", title |-> "t2"] >>

\* cycle c started in a new chat, was given id X with is_new (the route is
\* now X), received the delta "a" and a done event, and every load the
\* navigation started has completed
NewChatCycleSettled(c, X) ==
  /\ cycles[c].reqId = Null
  /\ cycles[c].newConversationId = X
  /\ url = X
  /\ cycles[c].deltas = << <<"a">> >>
  /\ cycles[c].terminals = << "done" >>
  /\ loads = <<>>
  /\ effectPending = "none"

\* C12: after a cycle started in a new chat has received conversation{X,
\* is_new}, its deltas and done, and conversation X (server history: the
\* user message and the reply) has been loaded, the transcript is the user
\* message followed by the reply, each once, and the active id is X,
\* wherever the load completed among the cycle's events.
C12_NewChatRoundTrip ==
  \A c \in 1..Len(cycles), X \in Ids :
    NewChatCycleSettled(c, X) =>
      /\ messages = TheExchange
      /\ currentConversationId = X

\* the request of cycle c has been issued and its stream is neither
\* exhausted nor failed
InFlight(c) == cycles[c].phase = "open"

\* C13: at most one send-cycle is in flight at any time.
C13_OneCycleInFlight ==
  Cardinality({ c \in 1..Len(cycles) : InFlight(c) }) <= 1

\* cycle c is over and the session is idle again
BackToIdle(c) ==
  /\ c <= Len(cycles)
  /\ cycles[c].phase # "open"
  /\ ~isLoading

\* C14: every send-cycle that is started eventually is over with loading
\* false, whatever its stream carried before it ended.
C14_EveryCycleTerminates ==
  \A c \in 1..LiveSends : (c <= Len(cycles)) ~> BackToIdle(c)

\* cycle c, started in a new chat, is streaming and the route is the id its
\* conversation event navigated to
NavigatedInFlight(c) ==
  /\ cycles[c].phase = "open"
  /\ isLoading
  /\ cycles[c].reqId = Null
  /\ url # Null
  /\ cycles[c].newConversationId = url

\* C15: a conversation event sets the active id to the server's id and, with
\* is_new, the route to that id; neither the event nor what follows from the
\* route change (the effect on the route parameter and the load it starts)
\* changes the transcript, the streaming buffer or the loading flag of the
\* cycle in flight.
C15_NavigationKeepsSessionState ==
  [][\A c \in 1..Len(cycles) :
       /\ \A id \in Ids, is_new \in BOOLEAN :
            (last'.op = "conversation" /\ OnConversation(c, id, is_new)) =>
              /\ currentConversationId' = id
              /\ is_new => url' = id
              /\ UNCHANGED << messages, streamingContent, isLoading >>
       /\ (NavigatedInFlight(c) /\ last'.op \in {"effects", "loadOk"}) =>
            UNCHANGED << messages, streamingContent, isLoading >>]_vars

\* ---- the decoder's claims
\* the kind a set of field names stands for: the first of conversation_id,
\* content, title, message that is present; done when there is no field
Precedence ==
  << [field |-> "conversation_id", kind |-> "conversation"],
     [field |-> "content", kind |-> "delta"],
     [field |-> "title", kind |-> "title"],
     [field |-> "message", kind |-> "error"] >>

KindOf(fields) ==
  IF \E i \in 1..Len(Precedence) : Precedence[i].field \in fields
    THEN Precedence[CHOOSE i \in 1..Len(Precedence) :
                      /\ Precedence[i].field \in fields
                      /\ \A j \in 1..(i - 1) : Precedence[j].field \notin fields].kind
    ELSE IF fields = {} THEN "done" ELSE "none"

\* the lines of a text that are ended by a line break
CompleteLines(text) == Front(Split(text))

IsDataLine(line) == StartsWith(line, DataPrefix)
PayloadOf(line) == ParseJSON(SubSeq(line, Len(DataPrefix) + 1, Len(line)))

\* a data line whose payload is an object of one of the five shapes
WellFormed(line) ==
  /\ IsDataLine(line)
  /\ PayloadOf(line).kind = "object"
  /\ KindOf(PayloadOf(line).fields) # "none"

\* one event per well-formed line, in the order of the lines
EventsOfWellFormed(lines) ==
  LET ls == SelectSeq(lines, WellFormed)
  IN  [i \in 1..Len(ls) |-> Event(KindOf(PayloadOf(ls[i]).fields), PayloadOf(ls[i]))]

FromObject(e) == e.data.kind = "object"

\* C16: the events decoded from object payloads are, in order, one event per
\* complete data line whose object has one of the five shapes, and the kind
\* of each is that of the first field present in the order conversation_id,
\* content, title, message, or done when the object has no field.
C16_ClassifiedByFieldPrecedence ==
  \A c \in 1..Len(cycles) :
    cycles[c].responded =>
      SelectSeq(cycles[c].emitted, FromObject)
        = EventsOfWellFormed(CompleteLines(cycles[c].received))

\* a payload with message, content and conversation_id, then one with title
\* and content: a conversation event and a delta event, both handed over
C16_Witness ==
  /\ Len(cycles) = 1
  /\ cycles[1].emitted =
       << Event("conversation",
                Parsed("object", {"message", "content", "conversation_id"})),
          Event("delta", Parsed("object", {"title", "content"})) >>
  /\ cycles[1].queue = <<>>
  /\ cycles[1].nEvents = 2
  /\ cycles[1].newConversationId = "c1"
  /\ streamingContent = << "a" >>

\* C17: whatever the chunks were, the events decoded so far and the buffer
\* are those of decoding all the text read so far as one chunk.
C17_ChunkingDoesNotMatter ==
  \A c \in 1..Len(cycles) :
    cycles[c].responded =>
      /\ cycles[c].emitted = DecodeChunk(<<>>, cycles[c].received).events
      /\ cycles[c].buffer = DecodeChunk(<<>>, cycles[c].received).buffer

\* two records, each begun in one chunk and completed by a later one, each
\* decoded once and handed over
C17_Witness ==
  /\ Len(cycles) = 1
  /\ cycles[1].joined = 2
  /\ cycles[1].emitted =
       << Event("delta", Parsed("object", {"content"})),
          Event("done", Parsed("object", {})) >>
  /\ cycles[1].nEvents = 2
  /\ cycles[1].body = <<>>
  /\ messages = << Msg("user", <<"h", "i">>), Msg("model", <<"a">>) >>

\* C18: once the stream is exhausted every record of the text has been
\* decoded and handed over, the last one also when the end of the stream
\* and no line break ends it.
C18_LastRecordEndedByEndOfStream ==
  \A c \in 1..Len(cycles) :
    (cycles[c].responded /\ cycles[c].phase = "returned") =>
      /\ cycles[c].emitted = LinesEvents(Split(cycles[c].received))
      /\ cycles[c].nEvents = Len(cycles[c].emitted)

\* C19: a line whose payload cannot be parsed or is of none of the five
\* shapes gives no event (so no handler runs for it and the session state
\* stays as it is), and the well-formed lines around it give theirs, in
\* order.
C19_MalformedRecordIsDropped ==
  \A c \in 1..Len(cycles) :
    cycles[c].responded =>
      cycles[c].emitted = EventsOfWellFormed(CompleteLines(cycles[c].received))

\* ---- the ledger's contract
\* a put of content for id adds or replaces the entry of id and no other;
\* a remove of id deletes the entry of id and no other
PutFrame(id) ==
  /\ DOMAIN LedgerAfter = DOMAIN Ledger \cup {id}
  /\ \A k \in DOMAIN Ledger \ {id} : LedgerAfter[k] = Ledger[k]

RemoveFrame(id) ==
  /\ DOMAIN LedgerAfter = DOMAIN Ledger \ {id}
  /\ \A k \in DOMAIN LedgerAfter : LedgerAfter[k] = Ledger[k]
  /\ getErrorForConversation(chat_errors', id) = None
  /\ id \notin DOMAIN Ledger => LedgerAfter = Ledger

C21_StoreFailureDoesNotBlock ==
  [][\A c \in 1..Len(cycles) :
       /\ (last'.c = c /\ last'.op \in {"error", "errorWriteFails"}) =>
            /\ Len(messages') = Len(messages) + 1
            /\ messages'[Len(messages')].role = "error"
            /\ streamingContent' = <<>>
            /\ isLoading' = FALSE
       /\ (last'.c = c /\ last'.op \in {"done", "doneWriteFails"}) =>
            /\ messages' = IF cycles[c].accumulatedContent # <<>>
                             THEN AppendModel(messages, cycles[c].accumulatedContent)
                             ELSE messages
            /\ streamingContent' = <<>>
            /\ isLoading' = FALSE]_vars

C24_IdleMeansNotLoading ==
  (\A c \in 1..Len(cycles) : ~InFlight(c)) =>
    (~isLoading /\ streamingContent = <<>>)

\* ------------------------------------------------------------------ C25
\* C25: a sticky error of conversation C is in the transcript only while C
\* is the active conversation.  In the state an error event of a cycle bound
\* to C produced (the error was stored under C and its message appended to
\* the transcript) the active id is C.
C25_StickyErrorOnlyInItsConversation ==
  \A c \in 1..Len(cycles) :
    ( /\ last = Op("error", c)
      /\ cycles[c].newConversationId \in DOMAIN Ledger
      /\ messages # <<>>
      /\ messages[Len(messages)].role = "error"
      /\ messages[Len(messages)].content = Ledger[cycles[c].newConversationId].content )
    => currentConversationId = cycles[c].newConversationId

\* ------------------------------------------------------------------ C26
Pinned(list) == SelectSeq(list, LAMBDA t : t.message = "pinned")

\* C26: a notification created with duration 0 stays displayed until it is
\* dismissed explicitly: no step but a click on a toast takes a pinned
\* toast away.
C26_PinnedStaysUntilDismissed ==
  [][Len(Pinned(toasts')) < Len(Pinned(toasts)) => last'.op = "removeToast"]_vars

\* ------------------------------------------------------------------ C27
\* the request of cycle c: the text and the conversation id it carries
Request(cs, c) == << cs[c].content, cs[c].reqId >>

\* C27: an accepted send appends one user message with the given text at
\* the end of the transcript, clears the streaming buffer, sets loading and
\* issues one request carrying the text and the active conversation id; no
\* other step issues a request or changes one that was issued.
C27_AcceptedSendIssuesOneRequest ==
  [][/\ \A content \in Texts :
          (last'.op = "send" /\ sendMessage(content)) =>
            /\ messages' = Append(messages, Msg("user", content))
            /\ streamingContent' = <<>>
            /\ isLoading'
            /\ Len(cycles') = Len(cycles) + 1
            /\ Request(cycles', Len(cycles')) = << content, currentConversationId >>
     /\ last'.op # "send" => Len(cycles') = Len(cycles)
     /\ \A c \in 1..Len(cycles) : Request(cycles', c) = Request(cycles, c)]_vars

\* a send in a bound conversation was accepted after the cycle before it
\* had failed: the failed cycle was not sent again
C27_Witness ==
  /\ last = Op("send", 2)
  /\ Len(cycles) = 2
  /\ cycles[1].phase = "failed"
  /\ cycles[2].reqId = "c1"
  /\ isLoading

\* ------------------------------------------------------------------ C28
IsPrefix(s, t) == Len(s) <= Len(t) /\ SubSeq(t, 1, Len(s)) = s

\* cycle c has received a delta and no terminal event, and its stream is open
Streaming(cs, c) ==
  /\ cs[c].phase = "open"
  /\ cs[c].deltas # <<>>
  /\ cs[c].terminals = <<>>

\* C28: between the first delta of a cycle and its terminal event no step
\* resets or shortens the streaming buffer: it only grows at its end.
C28_BufferMonotonicWithinCycle ==
  [][\A c \in 1..Len(cycles) :
       (Streaming(cycles, c) /\ Streaming(cycles', c)) =>
         IsPrefix(streamingContent, streamingContent')]_vars

\* ------------------------------------------------------------------ C29
\* C29: a cycle takes one terminal event: an event of a cycle that already
\* had its done or error event appends no message and leaves loading alone.
C29_OneTerminalEventPerCycle ==
  [][\A c \in 1..Len(cycles) :
       ( /\ cycles[c].terminals # <<>>
         /\ last'.c = c
         /\ last'.op \in {"conversation", "delta", "title", "done", "error"} )
       => UNCHANGED << messages, isLoading >>]_vars

\* ------------------------------------------------------------------ C30
\* cycle c is in flight and the user has left its conversation: the active
\* id is no longer the one the cycle is bound to
Abandoned(c) ==
  /\ cycles[c].phase = "open"
  /\ navs > 0
  /\ currentConversationId # cycles[c].newConversationId

\* C30: the events of an abandoned cycle change neither the transcript now
\* displayed nor the active conversation id.
C30_AbandonedCycleDoesNotLeak ==
  [][\A c \in 1..Len(cycles) :
       ( /\ Abandoned(c)
         /\ last'.c = c
         /\ last'.op \in {"conversation", "delta", "done", "error"} )
       => UNCHANGED << messages, currentConversationId >>]_vars

\* ------------------------------------------------------------------ C31
\* C31: the rollback of a failed send removes the user message of the
\* failing cycle and nothing else: a catch step never takes a message of
\* another role off the transcript, and takes nothing off when the last
\* entry is not a user message.
C31_RollbackRemovesOnlyOwnMessage ==
  [][last'.op = "catch" =>
       \/ messages' = messages
       \/ /\ messages # <<>>
          /\ messages[Len(messages)].role = "user"
          /\ messages' = SubSeq(messages, 1, Len(messages) - 1)]_vars

\* ------------------------------------------------------------------ C32
\* C32: conversation loads are applied in request order.  The route holds
\* the conversation requested last; once the last pending fetch has
\* returned, the active id is that conversation.
C32_LoadsAppliedInRequestOrder ==
  ( /\ last.op = "loadOk"
    /\ loads = <<>>
    /\ effectPending = "none"
    /\ url # Null )
  => currentConversationId = url

\* ------------------------------------------------------------------ C33
\* the step is a done event of a cycle bound to conversation k
DoneFor(k) ==
  /\ last'.op = "done"
  /\ cycles[last'.c].newConversationId = k

\* the step is an error event of a cycle bound to conversation k
ErrorFor(k) ==
  /\ last'.op = "error"
  /\ cycles[last'.c].newConversationId = k

\* the step is the successful end of a deletion of conversation k
DeletionOf(k) ==
  /\ last'.op = "deleteOk"
  /\ \E i \in 1..Len(deletes) : deletes[i].id = k /\ DeleteOk(i)

\* C33: sticky errors belong to their conversation.  The entry of k is
\* removed only by a done event of a cycle for k or by the deletion of k,
\* and written only by an error event of a cycle for k; new chats,
\* navigation and loads leave the whole store as it is.
C33_StickyEntriesBelongToTheirConversation ==
  [][/\ \A k \in DOMAIN Ledger :
          /\ k \notin DOMAIN LedgerAfter => (DoneFor(k) \/ DeletionOf(k))
          /\ (k \in DOMAIN LedgerAfter /\ LedgerAfter[k] # Ledger[k]) => ErrorFor(k)
     /\ \A k \in DOMAIN LedgerAfter \ DOMAIN Ledger : ErrorFor(k)
     /\ last'.op \in {"newChat", "click", "effects", "loadOk"}
          => chat_errors' = chat_errors]_vars

\* c1 and c2 both had a stored error and the user had started a new chat; a
\* done event of the cycle for c1 has removed the entry of c1 and the entry
\* of c2 is still there
C33_Witness ==
  /\ last.op = "done"
  /\ cycles[last.c].newConversationId = "c1"
  /\ cycles[last.c].terminals = << "error", "done" >>
  /\ navs > 0
  /\ DOMAIN Ledger = {"c2"}
  /\ Ledger["c2"].content = <<"o", "l", "d">>

====
